---- MODULE Spec2Model ----
(***************************************************************************)
(* The Queue module of BESS (core/modules/queue.cc): a bounded packet      *)
(* queue between upstream producers (ProcessBatch) and one scheduled       *)
(* consumer (RunTask), resizable by the set_size command.                  *)
(*                                                                         *)
(* The ring itself (core/kmod/llring.h) is modelled from the description   *)
(* of the ring buffer: a slot array indexed by cursor & (slots - 1), a     *)
(* producer cursor reserved by compare-and-advance and bounded by          *)
(* consumer cursor + capacity, and a consumer cursor.  The producer cursor *)
(* is kept as the pair prod_head (reserved) / prod_tail (written and       *)
(* visible to the consumer).                                               *)
(***************************************************************************)
EXTENDS Integers, Sequences, FiniteSets, TLC

\* ------------------------------------------------------------------ bounds
\* Packet handles 1..MaxHandles are ever passed to ProcessBatch by a single
\* upstream thread, 1..MaxHandlesMP by two upstream threads.
MaxHandles == 6
MaxHandlesMP == 5
\* Rings 1..MaxRings can be allocated by mem_alloc over a run.
MaxRings == 2
\* Packet handles 1..MaxHandlesCmd are passed to ProcessBatch in the runs
\* that follow each set_burst call to its return.
MaxHandlesCmd == 3
\* Packet handles 1..MaxHandlesLive are passed to ProcessBatch in the runs
\* in which every thread keeps being scheduled.
MaxHandlesLive == 4
\* Packet handles 1..MaxHandlesRace are passed to ProcessBatch in the runs
\* in which set_size is issued with and without the workers paused.
MaxHandlesRace == 2

\* ------------------------------------------------------- program constants
DEFAULT_QUEUE_SIZE == 1024
\* The platform's largest batch; its definition is outside this file.
MAX_PKT_BURST == 32
pkt_overhead == 24
MIN_QUEUE_SIZE == 4
MAX_QUEUE_SIZE == 16384

\* The cursors are unsigned 32-bit counters.  The model counts them modulo
\* 2^16, a multiple of every capacity, which no run within the bounds reaches.
U32 == 2^16
\* The value of a pointer that designates nothing.
NULL == 0

Producers == {"p1", "p2"}
Handles == 1..MaxHandles
RingIds == 1..MaxRings
\* The payload length (snb_total_len) of each packet upstream creates.
PktLen(h) == IF h <= 4 THEN 100 ELSE 60
\* The places of the code that release a packet (snb_free, snb_free_bulk).
Sites == {"overflow", "resize", "deinit"}

\* A configuration value (struct snobj): an integer, or something else.
NoArg == [type |-> "nil", val |-> 0]
NotInt == [type |-> "str", val |-> 0]
IntArg(n) == [type |-> "int", val |-> n]
BurstArgs == {NotInt} \cup {IntArg(n) : n \in {0, 2, MAX_PKT_BURST, MAX_PKT_BURST + 1}}
SizeArgs == {NotInt} \cup {IntArg(n) : n \in {2, 3, 4, 6, 16, MAX_QUEUE_SIZE * 2}}

\* ----------------------------------------------------------------- helpers
Min(a, b) == IF a < b THEN a ELSE b

RECURSIVE BitAnd(_, _)
BitAnd(a, b) ==
  IF a = 0 \/ b = 0 THEN 0
  ELSE (a % 2) * (b % 2) + 2 * BitAnd(a \div 2, b \div 2)

Range(s) == {s[i] : i \in DOMAIN s}
SubSeqFrom(s, k) == SubSeq(s, k, Len(s))
Prefix(s, n) == SubSeq(s, 1, Min(n, Len(s)))

RECURSIVE SumOver(_, _)
SumOver(f, s) == IF s = <<>> THEN 0 ELSE f[Head(s)] + SumOver(f, Tail(s))

\* ------------------------------------------------------ the ring (llring)
\* llring_init(r, slots, 0, 1): an empty ring of `slots` slots whose storage
\* holds nothing yet.
llring_init(slots) ==
  [state |-> "live", slots |-> slots, mask |-> slots - 1,
   prod_head |-> 0, prod_tail |-> 0, cons_head |-> 0, cons_tail |-> 0,
   ring |-> <<>>]

\* Storage returned to the allocator by mem_free.
FreedRing == [llring_init(0) EXCEPT !.state = "freed"]

\* Free slots seen by a producer that read prod_head and cons_tail.
llring_free_count(r, prod_head, cons_tail) ==
  (r.slots + cons_tail - prod_head) % U32

\* The slot a cursor value designates.
SlotIdx(r, cursor) == BitAnd(cursor, r.mask)
SlotAt(r, cursor) ==
  IF SlotIdx(r, cursor) \in DOMAIN r.ring THEN r.ring[SlotIdx(r, cursor)] ELSE NULL

\* The handles queued in r, oldest first.
RingContents(r) ==
  [i \in 1..((r.prod_tail - r.cons_head) % U32) |-> SlotAt(r, (r.cons_head + i - 1) % U32)]

\* ENQUEUE_PTRS: objs written to the slots from cursor `head` on.
WriteSlots(r, head, objs) ==
  LET idx(i) == SlotIdx(r, (head + i - 1) % U32)
      written == {idx(i) : i \in 1..Len(objs)}
  IN [k \in (DOMAIN r.ring) \cup written |->
        IF k \in written
        THEN objs[CHOOSE i \in 1..Len(objs) : idx(i) = k /\ \A j \in 1..Len(objs) : idx(j) = k => j <= i]
        ELSE r.ring[k]]

\* llring_sc_dequeue_burst(r, objs, max): the count read, the handles, the ring after.
llring_sc_dequeue_burst(r, max) ==
  LET entries == (r.prod_tail - r.cons_head) % U32
      n == Min(max, entries)
  IN [n |-> n,
      objs |-> [i \in 1..n |-> SlotAt(r, (r.cons_head + i - 1) % U32)],
      ring |-> [r EXCEPT !.cons_head = (r.cons_head + n) % U32,
                         !.cons_tail = (r.cons_head + n) % U32]]

\* llring_sp_enqueue(r, obj): "ok" and the ring with obj appended, or "nobuf".
llring_sp_enqueue(r, obj) ==
  IF llring_free_count(r, r.prod_head, r.cons_tail) = 0
  THEN [ret |-> "nobuf", ring |-> r]
  ELSE [ret |-> "ok",
        ring |-> [r EXCEPT !.ring = WriteSlots(r, r.prod_head, <<obj>>),
                           !.prod_head = (r.prod_head + 1) % U32,
                           !.prod_tail = (r.prod_head + 1) % U32]]

\* The validation without its test for zero.
CommandSetBurstErrNoZero(arg) ==
  IF arg.type # "int" THEN "EINVAL"
  ELSE IF arg.val > MAX_PKT_BURST THEN "EINVAL"
  ELSE "ok"

\* Queue::CommandSetBurst: the error it returns, or "ok".
CommandSetBurstErr(arg) ==
  IF arg.type # "int" THEN "EINVAL"
  ELSE IF arg.val = 0 \/ arg.val > MAX_PKT_BURST THEN "EINVAL"
  ELSE "ok"

\* The validation without its power-of-two test.
CommandSetSizeErrRangeOnly(arg) ==
  IF arg.type # "int" THEN "EINVAL"
  ELSE IF arg.val < MIN_QUEUE_SIZE \/ arg.val > MAX_QUEUE_SIZE THEN "EINVAL"
  ELSE "ok"

\* Queue::CommandSetSize up to its call of Resize: the error, or "ok".
CommandSetSizeErr(arg) ==
  IF arg.type # "int" THEN "EINVAL"
  ELSE IF arg.val < MIN_QUEUE_SIZE \/ arg.val > MAX_QUEUE_SIZE THEN "EINVAL"
  ELSE IF BitAnd(arg.val, arg.val - 1) # 0 THEN "EINVAL"
  ELSE "ok"

\* ------------------------------------------------------------ deployments
\* The configurations Init is called with: two that are valid, and every
\* combination with an invalid burst or an invalid size.
InitConfig(b, sz, pf) == [burst |-> b, size |-> sz, prefetch |-> pf]
ValidInitArgs ==
  {InitConfig(NoArg, NoArg, FALSE), InitConfig(IntArg(2), IntArg(8), TRUE)}
InvalidInitArgs ==
  {a \in [burst : {NoArg} \cup BurstArgs, size : {NoArg} \cup SizeArgs, prefetch : BOOLEAN] :
     \/ a.burst # NoArg /\ CommandSetBurstErr(a.burst) # "ok"
     \/ a.size # NoArg /\ CommandSetSizeErr(a.size) # "ok"}

\* One upstream thread, with the commands issued between its calls.
ControlEnv ==
  [sync |-> TRUE, producers |-> {"p1"}, handles |-> MaxHandles, commands |-> TRUE]
\* Two upstream threads on the smallest ring, with no command issued.
TrafficEnv ==
  [sync |-> TRUE, producers |-> Producers, handles |-> MaxHandlesMP, commands |-> FALSE]
Envs == {ControlEnv, TrafficEnv}
\* Two upstream threads and the consumer on the smallest ring, each of which
\* keeps being scheduled while it is inside a call.
LiveEnv ==
  [sync |-> TRUE, producers |-> Producers, handles |-> MaxHandlesLive, commands |-> FALSE]
\* One upstream thread and a control thread that only issues set_burst.
BurstEnv ==
  [sync |-> TRUE, producers |-> {"p1"}, handles |-> MaxHandlesCmd, commands |-> TRUE]
\* One upstream thread, the consumer and set_size commands: issued with the
\* workers paused, as the framework does for a command that is not
\* thread-safe, and issued while ProcessBatch or RunTask may be running.
QuietEnv ==
  [sync |-> TRUE, producers |-> {"p1"}, handles |-> MaxHandlesRace, commands |-> TRUE]
RaceEnv ==
  [sync |-> FALSE, producers |-> {"p1"}, handles |-> MaxHandlesRace, commands |-> TRUE]
InitArgs(e) ==
  IF e \in {QuietEnv, RaceEnv} THEN {InitConfig(NoArg, IntArg(MIN_QUEUE_SIZE), FALSE)}
  ELSE IF e.commands THEN ValidInitArgs \cup InvalidInitArgs
  ELSE IF e = LiveEnv THEN {InitConfig(IntArg(2), IntArg(MIN_QUEUE_SIZE), FALSE)}
  ELSE {InitConfig(NoArg, IntArg(MIN_QUEUE_SIZE), FALSE)}

\* ------------------------------------------------------------------- state
VARIABLES
  queue_,          \* Queue::queue_: the active ring (a ring id), or NULL
  prefetch_,       \* Queue::prefetch_
  burst_,          \* Queue::burst_
  task_registered, \* whether register_task gave the module a task
  mem,             \* the rings mem_alloc has handed out, by ring id
  lifecycle,       \* "constructed", "running", "failed", "torn_down", "crashed"
  env,             \* the deployment: who calls the module, and with what
  prod,            \* per producer thread: its position in ProcessBatch and its locals
  cons,            \* the consumer thread: its position in RunTask and its locals
  ctl,             \* the control thread: its position in Init or a command
  next_handle,     \* the next packet handle upstream creates
  delivered,       \* the handles run_next_module was called with, in order
  freed,           \* how often each handle was released, per release site
  fault            \* the invalid memory access the module made, or "none"

progVars == <<queue_, prefetch_, burst_, task_registered, mem, lifecycle, env>>
threadVars == <<prod, cons, ctl>>
ghostVars == <<next_handle, delivered, freed, fault>>
vars == <<progVars, threadVars, ghostVars>>

NoRing == [llring_init(0) EXCEPT !.state = "none"]
NoneFreed == [s \in Sites |-> [h \in Handles |-> 0]]
ProdIdle == [pc |-> "idle", q |-> NULL, batch |-> <<>>, head |-> 0, n |-> 0]
NoResult == [packets |-> 0, bits |-> 0]
\* `handed` counts the calls of run_next_module in this invocation.
ConsIdle ==
  [pc |-> "idle", burst |-> 0, batch |-> <<>>, cnt |-> 0, handed |-> 0, ret |-> NoResult]
NoSnap == [queue_ |-> NULL, burst_ |-> 0, prefetch_ |-> FALSE, task_registered |-> FALSE,
           mem |-> <<>>, contents |-> <<>>, freed |-> NoneFreed, delivered |-> <<>>]
\* What GetDesc formats: llring_count(ring) and ring->common.slots.
NoDesc == [count |-> 0, slots |-> 0]
\* The configuration of the Init in progress; none outside Init.
NoCfg == InitConfig(NoArg, NoArg, FALSE)
CtlIdle ==
  [pc |-> "idle", op |-> "none", arg |-> NoArg, slots |-> 0, old_queue |-> NULL,
   new_queue |-> NULL, prefetch |-> FALSE, ret |-> "none", desc |-> NoDesc,
   cfg |-> NoCfg, pre |-> NoSnap]

\* Queue::Queue(): queue_(), prefetch_(), burst_(), in one of the deployments E.
InitWith(E) ==
  /\ queue_ = NULL
  /\ prefetch_ = FALSE
  /\ burst_ = 0
  /\ task_registered = FALSE
  /\ mem = [r \in RingIds |-> NoRing]
  /\ lifecycle = "constructed"
  /\ env \in E
  /\ prod = [p \in Producers |-> ProdIdle]
  /\ cons = ConsIdle
  /\ ctl = CtlIdle
  /\ next_handle = 1
  /\ delivered = <<>>
  /\ freed = NoneFreed
  /\ fault = "none"

Init == InitWith(Envs)

\* snb_free / snb_free_bulk of the handles of `pkts` at release site `site`.
Release(fr, site, pkts) ==
  [fr EXCEPT ![site] = [h \in Handles |->
     @[h] + Cardinality({i \in DOMAIN pkts : pkts[i] = h})]]

HotPathIdle == cons.pc = "idle" /\ \A p \in Producers : prod[p].pc = "idle"
\* Pointer q designates ring storage that mem_alloc handed out and mem_free
\* has not taken back.
Allocated(q) == q # NULL /\ mem[q].state = "live"
\* The module serves traffic once Init succeeded; a quiescent caller runs no
\* Enqueue or Run while Init or set_size is in flight.
MayServe == lifecycle = "running" /\ (env.sync => ctl.pc = "idle")
\* set_size registered as thread-safe: issued without the workers paused.
MayResizeUnpaused == env.commands /\ lifecycle = "running" /\ ctl.pc = "idle"
\* set_size is registered as not thread-safe: the framework runs it with the
\* workers paused.  set_burst is registered as thread-safe.
MayResize == env.commands /\ lifecycle = "running" /\ ctl.pc = "idle" /\ (env.sync => HotPathIdle)
MaySetBurst == env.commands /\ lifecycle = "running" /\ ctl.pc = "idle"

\* --------------------------------------------- ProcessBatch (from upstream)
\* The suffix taken one position late: the first rejected handle is not in it.
RejectedSuffixSkipOne(batch, queued) == SubSeqFrom(batch, queued + 2)
\* batch->pkts + queued, batch->cnt - queued: the handles the ring did not take.
RejectedSuffix(batch, queued) == SubSeqFrom(batch, queued + 1)

\* The call ending without a release of what the ring did not take.
FreeRejectedNever(fr, batch, queued) == fr
\* if (queued < batch->cnt) snb_free_bulk(...): the release sites after the call.
FreeRejected(fr, batch, queued) ==
  IF queued < Len(batch) THEN Release(fr, "overflow", RejectedSuffix(batch, queued)) ELSE fr

\* llring_mp_enqueue_burst, first half of the reservation: the producer reads
\* both cursors and bounds its request by the free slots.  With no free slot
\* the call returns 0 and ProcessBatch releases the whole batch.
MpLoad(p, q, batch) ==
  LET r == mem[q]
      free == llring_free_count(r, r.prod_head, r.cons_tail)
  IN IF free = 0
     THEN /\ prod' = [prod EXCEPT ![p] = ProdIdle]
          /\ freed' = FreeRejected(freed, batch, 0)
     ELSE /\ prod' = [prod EXCEPT ![p] =
                        [pc |-> "cas", q |-> q, batch |-> batch, head |-> r.prod_head,
                         n |-> Min(Len(batch), free)]]
          /\ UNCHANGED freed

\* Upstream calls ProcessBatch with a batch of fresh packets; the call reads
\* queue_ and enters llring_mp_enqueue_burst.
ProcessBatch(p) ==
  /\ MayServe
  /\ Allocated(queue_)
  /\ p \in env.producers
  /\ prod[p].pc = "idle"
  /\ next_handle <= env.handles
  /\ \E n \in 1..Min(MAX_PKT_BURST, env.handles - next_handle + 1) :
       /\ MpLoad(p, queue_, [i \in 1..n |-> next_handle + i - 1])
       /\ next_handle' = next_handle + n
  /\ UNCHANGED <<progVars, cons, ctl, delivered, fault>>

\* The reservation starts over after a failed compare-and-advance.
MpEnqueueLoad(p) ==
  /\ prod[p].pc = "load"
  /\ Allocated(prod[p].q)
  /\ MpLoad(p, prod[p].q, prod[p].batch)
  /\ UNCHANGED <<progVars, cons, ctl, next_handle, delivered, fault>>

\* The single-producer reservation: the producer cursor is stored without
\* comparing it with the value read.
llring_sp_reserve(r, head, n) ==
  [ok |-> TRUE, ring |-> [r EXCEPT !.prod_head = (head + n) % U32]]

\* The multi-producer reservation: compare-and-advance of the producer cursor.
llring_mp_reserve(r, head, n) ==
  IF r.prod_head = head
  THEN [ok |-> TRUE, ring |-> [r EXCEPT !.prod_head = (head + n) % U32]]
  ELSE [ok |-> FALSE, ring |-> r]

\* ProcessBatch going through the single-producer entry of the ring.
EnqueueReserveSp(r, head, n) == llring_sp_reserve(r, head, n)
\* ProcessBatch enqueues through the multi-producer entry of the ring.
EnqueueReserve(r, head, n) == llring_mp_reserve(r, head, n)

\* Second half of the reservation; a failed compare starts over.
MpEnqueueCas(p) ==
  /\ prod[p].pc = "cas"
  /\ Allocated(prod[p].q)
  /\ LET res == EnqueueReserve(mem[prod[p].q], prod[p].head, prod[p].n)
     IN /\ mem' = [mem EXCEPT ![prod[p].q] = res.ring]
        /\ prod' = [prod EXCEPT ![p].pc = IF res.ok THEN "write" ELSE "load"]
  /\ UNCHANGED <<queue_, prefetch_, burst_, task_registered, lifecycle, env, cons, ctl, ghostVars>>

\* The accepted handles are written to the reserved slots.
MpEnqueueWrite(p) ==
  /\ prod[p].pc = "write"
  /\ Allocated(prod[p].q)
  /\ LET r == mem[prod[p].q]
     IN mem' = [mem EXCEPT ![prod[p].q].ring =
                  WriteSlots(r, prod[p].head, Prefix(prod[p].batch, prod[p].n))]
  /\ prod' = [prod EXCEPT ![p].pc = "publish"]
  /\ UNCHANGED <<queue_, prefetch_, burst_, task_registered, lifecycle, env, cons, ctl, ghostVars>>

\* Once the reservations before this one are visible, the producer makes its
\* own visible; llring_mp_enqueue_burst returns n and ProcessBatch releases
\* the handles the ring did not take.
ProcessBatchReturn(p) ==
  /\ prod[p].pc = "publish"
  /\ Allocated(prod[p].q)
  /\ mem[prod[p].q].prod_tail = prod[p].head
  /\ mem' = [mem EXCEPT ![prod[p].q].prod_tail = (prod[p].head + prod[p].n) % U32]
  /\ freed' = FreeRejected(freed, prod[p].batch, prod[p].n)
  /\ prod' = [prod EXCEPT ![p] = ProdIdle]
  /\ UNCHANGED <<queue_, prefetch_, burst_, task_registered, lifecycle, env, cons, ctl,
                 next_handle, delivered, fault>>

\* An access to ring storage that mem_free has taken back.  What it does is
\* undefined: the process stops, with every thread's call gone with it, or
\* the call of `thread` ends and the process goes on.
UseAfterFree(thread) ==
  /\ fault' = "use_after_free"
  /\ \E stops \in BOOLEAN :
       IF stops
       THEN /\ lifecycle' = "crashed"
            /\ prod' = [p \in Producers |-> ProdIdle]
            /\ cons' = ConsIdle
            /\ ctl' = CtlIdle
       ELSE /\ lifecycle' = lifecycle
            /\ prod' = IF thread \in Producers THEN [prod EXCEPT ![thread] = ProdIdle] ELSE prod
            /\ cons' = IF thread = "consumer" THEN ConsIdle ELSE cons
            /\ ctl' = ctl

\* ProcessBatch reading queue_ between mem_free(old_queue) and
\* queue_ = new_queue of a Resize, or going on inside llring_mp_enqueue_burst
\* on a ring Resize has released meanwhile.
ProcessBatchOnFreed(p) ==
  /\ p \in env.producers
  /\ \/ /\ MayServe
        /\ prod[p].pc = "idle"
        /\ ~Allocated(queue_)
        /\ next_handle <= env.handles
        /\ \E n \in 1..Min(MAX_PKT_BURST, env.handles - next_handle + 1) :
             next_handle' = next_handle + n
     \/ /\ prod[p].pc # "idle"
        /\ ~Allocated(prod[p].q)
        /\ UNCHANGED next_handle
  /\ UseAfterFree(p)
  /\ UNCHANGED <<queue_, prefetch_, burst_, task_registered, mem, env, delivered, freed>>

\* The hand-off without its test of cnt, and with the test off by one.
HandoffAlways(cnt) == TRUE
HandoffAboveOne(cnt) == cnt > 1
\* if (cnt > 0): whether the batch is handed downstream.
Handoff(cnt) == cnt > 0

\* Lines 147-157: burst = burst_; cnt = llring_sc_dequeue_burst(queue_,
\* batch.pkts, burst); if (cnt > 0) run_next_module(this, &batch).

RunTask ==
  /\ MayServe
  /\ task_registered
  /\ cons.pc = "idle"
  /\ Allocated(queue_)
  /\ LET res == llring_sc_dequeue_burst(mem[queue_], burst_)
     IN /\ mem' = [mem EXCEPT ![queue_] = res.ring]
        /\ cons' = [ConsIdle EXCEPT !.pc = "stats", !.burst = burst_,
                                    !.batch = res.objs, !.cnt = res.n,
                                    !.handed = IF Handoff(res.n) THEN 1 ELSE 0]
        /\ delivered' = IF Handoff(res.n) THEN delivered \o res.objs ELSE delivered
  /\ UNCHANGED <<queue_, prefetch_, burst_, task_registered, lifecycle, env, prod, ctl,
                 next_handle, freed, fault>>

\* RunTask reading queue_ between mem_free(old_queue) and queue_ = new_queue
\* of a Resize: llring_sc_dequeue_burst runs on released storage.
RunTaskOnFreed ==
  /\ MayServe
  /\ task_registered
  /\ cons.pc = "idle"
  /\ ~Allocated(queue_)
  /\ UseAfterFree("consumer")
  /\ UNCHANGED <<queue_, prefetch_, burst_, task_registered, mem, env, next_handle,
                 delivered, freed>>

\* Downstream owns the packets from the hand-off on and may leave, rewrite or
\* release them: what a length field may read then, besides the length the
\* packet had.
DownstreamLens == {0, 60}

\* snb_total_len(pkt) for every packet of the batch, read after the hand-off:
\* the sequences of lengths the loop can read.
LengthsRead(batch, cnt) ==
  {[i \in 1..cnt |-> PktLen(batch[i])]}
    \cup {[i \in 1..cnt |-> l] : l \in DownstreamLens}

\* ret = { .packets = cnt, .bits = (total_bytes + cnt * pkt_overhead) * 8 }
TaskResult(cnt, total_bytes) ==
  [packets |-> cnt, bits |-> (total_bytes + cnt * pkt_overhead) * 8]

\* Lines 159-171: the loop over batch.pkts[0..cnt), with or without prefetch,
\* sums the lengths into total_bytes.
RunTaskStats ==
  /\ cons.pc = "stats"
  /\ \E lens \in LengthsRead(cons.batch, cons.cnt) :
       cons' = [cons EXCEPT !.pc = "ret",
                            !.ret = TaskResult(cons.cnt, SumOver(lens, [i \in 1..cons.cnt |-> i]))]
  /\ UNCHANGED <<progVars, prod, ctl, ghostVars>>

\* return ret: the scheduler takes the result.
RunTaskReturn ==
  /\ cons.pc = "ret"
  /\ cons' = ConsIdle
  /\ UNCHANGED <<progVars, prod, ctl, ghostVars>>

\* ------------------------------------------------------------ the commands
\* What the control thread remembers of the state it found (bookkeeping).
Snap ==
  [queue_ |-> queue_, burst_ |-> burst_, prefetch_ |-> prefetch_,
   task_registered |-> task_registered,
   mem |-> mem,
   contents |-> IF queue_ = NULL THEN <<>> ELSE RingContents(mem[queue_]),
   freed |-> freed, delivered |-> delivered]

\* burst_ after CommandSetBurst(arg)
BurstAfter(b, arg) == IF CommandSetBurstErr(arg) = "ok" THEN arg.val ELSE b

\* The set_burst command.
CommandSetBurst ==
  /\ MaySetBurst
  /\ \E arg \in BurstArgs : burst_' = BurstAfter(burst_, arg)
  /\ UNCHANGED <<queue_, prefetch_, task_registered, mem, lifecycle, env, threadVars, ghostVars>>

\* The control thread enters Resize(slots) on behalf of `op`.
CallResize(op, arg, slots, prefetch, pre) ==
  [CtlIdle EXCEPT !.pc = "alloc", !.op = op, !.arg = arg, !.slots = slots,
                  !.prefetch = prefetch, !.pre = pre]
\* The control thread's call returns `ret`.
CtlRet(op, arg, ret, pre) ==
  [CtlIdle EXCEPT !.pc = "ret", !.op = op, !.arg = arg, !.ret = ret, !.pre = pre]

\* The set_burst command up to its return: burst_ is assigned, or not, and
\* the call is about to return its result.
SetBurstCall ==
  /\ MaySetBurst
  /\ \E arg \in BurstArgs :
       /\ burst_' = BurstAfter(burst_, arg)
       /\ ctl' = CtlRet("set_burst", arg, CommandSetBurstErr(arg), Snap)
  /\ UNCHANGED <<queue_, prefetch_, task_registered, mem, lifecycle, env, prod, cons, ghostVars>>

\* The set_size command, up to Resize.
CommandSetSize ==
  /\ MayResize
  /\ \E arg \in SizeArgs :
       ctl' = IF CommandSetSizeErr(arg) = "ok"
              THEN CallResize("set_size", arg, arg.val, FALSE, Snap)
              ELSE CtlRet("set_size", arg, CommandSetSizeErr(arg), Snap)
  /\ UNCHANGED <<progVars, prod, cons, ghostVars>>

\* Queue::Init(arg), up to Resize.  `registered` is whether register_task
\* returned a task.  A refused burst or size is kept as the call's argument.
InitFrom(arg, registered) ==
  /\ task_registered' = registered
  /\ LET burstErr == IF arg.burst = NoArg THEN "ok" ELSE CommandSetBurstErr(arg.burst)
         sizeErr == IF arg.size = NoArg THEN "ok" ELSE CommandSetSizeErr(arg.size)
         slots == IF arg.size = NoArg THEN DEFAULT_QUEUE_SIZE ELSE arg.size.val
     IN IF ~registered
        THEN /\ burst_' = MAX_PKT_BURST
             /\ ctl' = CtlRet("init", NoArg, "ENOMEM", Snap)
        ELSE IF burstErr # "ok"
        THEN /\ burst_' = MAX_PKT_BURST
             /\ ctl' = CtlRet("init", arg.burst, burstErr, Snap)
        ELSE /\ burst_' = IF arg.burst = NoArg THEN MAX_PKT_BURST ELSE arg.burst.val
             /\ ctl' = IF sizeErr # "ok"
                       THEN CtlRet("init", arg.size, sizeErr, Snap)
                       ELSE [CallResize("init", NoArg, slots, arg.prefetch, Snap)
                               EXCEPT !.cfg = arg]

ModuleInit ==
  /\ lifecycle = "constructed"
  /\ ctl.pc = "idle"
  /\ \E arg \in InitArgs(env), registered \in BOOLEAN : InitFrom(arg, registered)
  /\ UNCHANGED <<queue_, prefetch_, mem, lifecycle, env, prod, cons, ghostVars>>

\* ------------------------------------------------------------------ Resize
\* mem_alloc hands out the lowest ring id not handed out before.
FreshRing == CHOOSE r \in RingIds : mem[r].state = "none" /\ \A o \in RingIds : mem[o].state = "none" => r <= o

\* The failure path giving back the active ring instead of the new one.
InitFailureFreesOld(m, old_queue) ==
  IF old_queue = NULL THEN m ELSE [m EXCEPT ![old_queue] = FreedRing]
\* mem_free(new_queue) after llring_init refused the ring: the memory is as
\* it was before mem_alloc.
InitFailureFrees(m, old_queue) == m

\* Resize, to the start of the migration.  mem_alloc may return no memory
\* ("enomem") and llring_init may refuse the ring ("einval"); a refused ring
\* is given back at once.
ResizeAlloc ==
  /\ ctl.pc = "alloc"
  /\ \E outcome \in {"ok", "enomem", "einval"} :
       CASE outcome = "ok" ->
              /\ \E r \in RingIds : mem[r].state = "none"
              /\ mem' = [mem EXCEPT ![FreshRing] = llring_init(ctl.slots)]
              /\ ctl' = [ctl EXCEPT !.pc = "migrate", !.old_queue = queue_,
                                    !.new_queue = FreshRing]
         [] outcome = "enomem" ->
              /\ ctl' = CtlRet(ctl.op, ctl.arg, "ENOMEM", ctl.pre)
              /\ UNCHANGED mem
         [] outcome = "einval" ->
              /\ ctl' = CtlRet(ctl.op, ctl.arg, "EINVAL", ctl.pre)
              /\ mem' = InitFailureFrees(mem, queue_)
  /\ UNCHANGED <<queue_, prefetch_, burst_, task_registered, lifecycle, env, prod, cons, ghostVars>>

\* The migration releasing every packet it moves, and releasing none.
MigrateReleaseAlways(fr, ret, pkt) == Release(fr, "resize", <<pkt>>)
MigrateReleaseNever(fr, ret, pkt) == fr
\* if (ret == -LLRING_ERR_NOBUF) snb_free(pkt)
MigrateRelease(fr, ret, pkt) ==
  IF ret = "nobuf" THEN Release(fr, "resize", <<pkt>>) ELSE fr

\* One turn of the migration loop: a packet leaves the old ring and enters
\* the new one, or is released when the new ring has no room; the loop ends
\* when the old ring is empty.  Without an old ring there is no loop.
ResizeMigrate ==
  /\ ctl.pc = "migrate"
  /\ IF ctl.old_queue = NULL
     THEN /\ ctl' = [ctl EXCEPT !.pc = "swap"]
          /\ UNCHANGED <<mem, freed>>
     ELSE LET d == llring_sc_dequeue_burst(mem[ctl.old_queue], 1)
              e == llring_sp_enqueue(mem[ctl.new_queue], d.objs[1])
          IN IF d.n = 0
             THEN /\ ctl' = [ctl EXCEPT !.pc = "free_old"]
                  /\ UNCHANGED <<mem, freed>>
             ELSE /\ mem' = [mem EXCEPT ![ctl.old_queue] = d.ring,
                                        ![ctl.new_queue] = e.ring]
                  /\ freed' = MigrateRelease(freed, e.ret, d.objs[1])
                  /\ UNCHANGED ctl
  /\ UNCHANGED <<queue_, prefetch_, burst_, task_registered, lifecycle, env, prod, cons,
                 next_handle, delivered, fault>>

\* mem_free(old_queue)
ResizeFreeOld ==
  /\ ctl.pc = "free_old"
  /\ mem' = [mem EXCEPT ![ctl.old_queue] = FreedRing]
  /\ ctl' = [ctl EXCEPT !.pc = "swap"]
  /\ UNCHANGED <<queue_, prefetch_, burst_, task_registered, lifecycle, env, prod, cons, ghostVars>>

\* queue_ = new_queue; return 0.  Init then sets the prefetch flag.
ResizeSwap ==
  /\ ctl.pc = "swap"
  /\ queue_' = ctl.new_queue
  /\ prefetch_' = IF ctl.op = "init" /\ ctl.prefetch THEN TRUE ELSE prefetch_
  /\ ctl' = [ctl EXCEPT !.pc = "ret", !.ret = "ok"]
  /\ UNCHANGED <<burst_, task_registered, mem, lifecycle, env, prod, cons, ghostVars>>

\* The command, or Init, returns to its caller; the module serves traffic
\* once Init returned without an error.
CtlReturn ==
  /\ ctl.pc = "ret"
  /\ ctl' = CtlIdle
  /\ lifecycle' = IF ctl.op = "init"
                  THEN (IF ctl.ret = "ok" THEN "running" ELSE "failed")
                  ELSE lifecycle
  /\ UNCHANGED <<queue_, prefetch_, burst_, task_registered, mem, env, prod, cons, ghostVars>>

\* ------------------------------------------------------- Deinit, GetDesc
\* The framework destroys the module, after a successful Init or after one
\* that failed, with no other entry point running.
MayDeinit == lifecycle \in {"running", "failed"} /\ ctl.pc = "idle" /\ HotPathIdle
\* Describe is asked for by the control thread of a running module.
MayDescribe == env.commands /\ lifecycle = "running" /\ ctl.pc = "idle" /\ HotPathIdle

\* The drain as a single dequeue: only the oldest packet is released.
DeinitReleaseOldest(fr, pkts) == Release(fr, "deinit", SubSeq(pkts, 1, Min(1, Len(pkts))))
\* while (llring_sc_dequeue(queue_, &pkt) == 0) snb_free(pkt)
DeinitRelease(fr, pkts) == Release(fr, "deinit", pkts)

\* Queue::Deinit: every packet left in queue_ is dequeued and released, then
\* the ring is given back; queue_ keeps its value.  The function does not
\* test queue_: when Init never created a ring, llring_sc_dequeue reads
\* through a null pointer, which stops the process or does not.
Deinit ==
  /\ MayDeinit
  /\ IF queue_ = NULL
     THEN /\ fault' = "null_deref"
          /\ lifecycle' \in {"crashed", "torn_down"}
          /\ UNCHANGED <<mem, freed>>
     ELSE /\ freed' = DeinitRelease(freed, RingContents(mem[queue_]))
          /\ mem' = [mem EXCEPT ![queue_] = FreedRing]
          /\ lifecycle' = "torn_down"
          /\ UNCHANGED fault
  /\ UNCHANGED <<queue_, prefetch_, burst_, task_registered, env, threadVars, next_handle, delivered>>

\* Queue::GetDesc: "%u/%u" of llring_count(ring) and ring->common.slots.
GetDesc ==
  /\ MayDescribe
  /\ ctl' = [CtlIdle EXCEPT !.pc = "ret", !.op = "get_desc",
                            !.desc = [count |-> Len(RingContents(mem[queue_])),
                                      slots |-> mem[queue_].slots]]
  /\ UNCHANGED <<progVars, prod, cons, ghostVars>>

\* ------------------------------------------------------- the specification
Next ==
  \/ ModuleInit
  \/ CommandSetBurst
  \/ CommandSetSize
  \/ ResizeAlloc
  \/ ResizeMigrate
  \/ ResizeFreeOld
  \/ ResizeSwap
  \/ CtlReturn
  \/ \E p \in Producers : ProcessBatch(p)
  \/ \E p \in Producers : MpEnqueueLoad(p)
  \/ \E p \in Producers : MpEnqueueCas(p)
  \/ \E p \in Producers : MpEnqueueWrite(p)
  \/ \E p \in Producers : ProcessBatchReturn(p)
  \/ RunTask
  \/ RunTaskStats
  \/ RunTaskReturn
  \/ GetDesc
  \/ Deinit

Spec == Init /\ [][Next]_vars

\* The module with its threads scheduled fairly: a thread inside ProcessBatch,
\* RunTask, Init or a command takes its next step, and the scheduler keeps
\* invoking RunTask.
InitLive == InitWith({LiveEnv})
ProducerContinues(p) ==
  MpEnqueueLoad(p) \/ MpEnqueueCas(p) \/ MpEnqueueWrite(p) \/ ProcessBatchReturn(p)
ConsumerRuns == RunTask \/ RunTaskStats \/ RunTaskReturn
ControlContinues == ResizeAlloc \/ ResizeMigrate \/ ResizeSwap \/ CtlReturn
NextLive ==
  \/ ModuleInit
  \/ ResizeAlloc
  \/ ResizeMigrate
  \/ ResizeSwap
  \/ CtlReturn
  \/ \E p \in Producers : ProcessBatch(p)
  \/ \E p \in Producers : MpEnqueueLoad(p)
  \/ \E p \in Producers : MpEnqueueCas(p)
  \/ \E p \in Producers : MpEnqueueWrite(p)
  \/ \E p \in Producers : ProcessBatchReturn(p)
  \/ RunTask
  \/ RunTaskStats
  \/ RunTaskReturn
  \/ Deinit
SpecLive ==
  /\ InitLive
  /\ [][NextLive]_vars
  /\ \A p \in Producers : WF_vars(ProducerContinues(p))
  /\ WF_vars(ConsumerRuns)
  /\ WF_vars(ControlContinues)

\* The module under set_burst commands, each followed to its return.
InitBurst == InitWith({BurstEnv})
NextBurst ==
  \/ ModuleInit
  \/ SetBurstCall
  \/ ResizeAlloc
  \/ ResizeMigrate
  \/ ResizeSwap
  \/ CtlReturn
  \/ \E p \in Producers : ProcessBatch(p)
  \/ \E p \in Producers : MpEnqueueCas(p)
  \/ \E p \in Producers : MpEnqueueWrite(p)
  \/ \E p \in Producers : ProcessBatchReturn(p)
  \/ RunTask
  \/ RunTaskStats
  \/ RunTaskReturn
SpecBurst == InitBurst /\ [][NextBurst]_vars

\* The module under set_size commands, issued with the workers paused in one
\* deployment and without that guarantee in the other.
InitRace == InitWith({QuietEnv, RaceEnv})
NextRace ==
  \/ ModuleInit
  \/ CommandSetSize
  \/ ResizeAlloc
  \/ ResizeMigrate
  \/ ResizeFreeOld
  \/ ResizeSwap
  \/ CtlReturn
  \/ \E p \in Producers : ProcessBatch(p)
  \/ \E p \in Producers : MpEnqueueCas(p)
  \/ \E p \in Producers : MpEnqueueWrite(p)
  \/ \E p \in Producers : ProcessBatchReturn(p)
  \/ \E p \in Producers : ProcessBatchOnFreed(p)
  \/ RunTask
  \/ RunTaskOnFreed
  \/ RunTaskStats
  \/ RunTaskReturn
SpecRace == InitRace /\ [][NextRace]_vars

\* ------------------------------------------------------------ observations
Active == mem[queue_]
\* The handles queued in the active ring, oldest first.
Queued == RingContents(Active)
\* Resize is not between its first dequeue and its switch of queue_.
Stable == queue_ # NULL /\ mem[queue_].state = "live" /\ ctl.pc \in {"idle", "alloc", "ret"}
\* The capacities CommandSetSize lets through, stated apart from its code.
ValidCapacity(n) == \E k \in 2..14 : n = 2^k
\* The handles of the calls of ProcessBatch that have not returned yet.
InFlight == UNION {Range(prod[p].batch) : p \in Producers}
\* The handles some ring accepted: given to ProcessBatch, not in a call still
\* running, and not released as overflow.
AcceptedSet == {h \in 1..(next_handle - 1) : h \notin InFlight /\ freed["overflow"][h] = 0}
ResizeReleased == {h \in Handles : freed["resize"][h] > 0}
StrictlyIncreasing(s) == \A i, j \in DOMAIN s : i < j => s[i] < s[j]
NoDuplicates(s) == \A i, j \in DOMAIN s : i # j => s[i] # s[j]
\* `fr` with each handle of the set hs released once more at `site`.
PlusReleased(fr, site, hs) ==
  [s \in Sites |-> [h \in Handles |-> fr[s][h] + (IF s = site /\ h \in hs THEN 1 ELSE 0)]]

RECURSIVE SumReserved(_, _)
\* The slots of ring q reserved by the producers of P that have not made them visible.
SumReserved(P, q) ==
  IF P = {} THEN 0
  ELSE LET p == CHOOSE x \in P : TRUE
       IN (IF prod[p].q = q /\ prod[p].pc \in {"write", "publish"} THEN prod[p].n ELSE 0)
          + SumReserved(P \ {p}, q)
\* The free slots of ring q: its capacity less the handles queued and the slots reserved.
FreeSlots(q) == mem[q].slots - Len(RingContents(mem[q])) - SumReserved(Producers, q)

\* ------------------------------------------------------------------ claims
\* C1: in every reachable state every live ring, the active one included, has
\* a capacity that is a power of two in 4..16384, its cursors are ordered
\* consumer <= visible producer <= reserved producer, and its occupancy
\* (producer cursor minus consumer cursor) is between 0 and the capacity.
OccupancyInBounds(r) ==
  /\ ValidCapacity(r.slots)
  /\ r.cons_tail <= r.cons_head
  /\ r.cons_head <= r.prod_tail
  /\ r.prod_tail <= r.prod_head
  /\ r.prod_tail - r.cons_tail >= 0
  /\ r.prod_head - r.cons_tail <= r.slots
Thm_C1 == \A q \in RingIds : mem[q].state = "live" => OccupancyInBounds(mem[q])
\* The active ring is full after the consumer has already taken handles from it.
Wit_C1 ==
  /\ lifecycle = "running" /\ HotPathIdle /\ ctl.pc = "idle"
  /\ Active.state = "live"
  /\ Active.cons_tail > 0
  /\ Active.prod_tail - Active.cons_tail = Active.slots

\* C2: a call of ProcessBatch with a batch of N handles on a ring with R free
\* slots reserves min(N, R) slots (at its first reading of the cursors and at
\* every later one); with R = 0 it returns at once, the ring untouched and the
\* N handles released. When the call returns after queueing Q handles, the
\* ring holds its former contents followed by the first Q handles of the batch
\* in batch order, and exactly the handles at positions Q+1..N have been
\* released, once each, and nothing else has.
SubmittedBatch == [i \in 1..(next_handle' - next_handle) |-> next_handle + i - 1]
C2Entry ==
  next_handle' # next_handle =>
    LET batch == SubmittedBatch
        R == FreeSlots(queue_)
    IN IF R = 0
       THEN /\ prod' = prod
            /\ mem' = mem
            /\ freed' = PlusReleased(freed, "overflow", Range(batch))
       ELSE /\ \E p \in Producers :
                 /\ prod[p].pc = "idle"
                 /\ prod'[p].pc = "cas"
                 /\ prod'[p].q = queue_
                 /\ prod'[p].batch = batch
                 /\ prod'[p].n = Min(Len(batch), R)
                 /\ \A o \in Producers \ {p} : prod'[o] = prod[o]
            /\ mem' = mem
            /\ freed' = freed
C2Reload(p) ==
  (prod[p].pc = "load" /\ prod'[p] # prod[p]) =>
    LET R == FreeSlots(prod[p].q)
    IN IF R = 0
       THEN /\ prod'[p].pc = "idle"
            /\ mem' = mem
            /\ freed' = PlusReleased(freed, "overflow", Range(prod[p].batch))
       ELSE /\ prod'[p].pc = "cas"
            /\ prod'[p].batch = prod[p].batch
            /\ prod'[p].n = Min(Len(prod[p].batch), R)
            /\ mem' = mem
            /\ freed' = freed
C2Return(p) ==
  (prod[p].pc = "publish" /\ prod'[p].pc = "idle") =>
    LET q == prod[p].q
        Q == prod[p].n
        batch == prod[p].batch
    IN /\ Q \in 1..Len(batch)
       /\ RingContents(mem'[q]) = RingContents(mem[q]) \o SubSeq(batch, 1, Q)
       /\ freed' = PlusReleased(freed, "overflow", {batch[i] : i \in (Q + 1)..Len(batch)})
       /\ delivered' = delivered
Thm_C2 == [][C2Entry /\ \A p \in Producers : C2Reload(p) /\ C2Return(p)]_vars
\* Six handles were offered to a ring of four slots and none was taken out:
\* the ring holds the first four in order, the two newest were released.
Wit_C2 ==
  /\ HotPathIdle
  /\ queue_ # NULL
  /\ Active.state = "live" /\ Active.slots = 4
  /\ Queued = <<1, 2, 3, 4>>
  /\ next_handle = 7
  /\ freed = PlusReleased(NoneFreed, "overflow", {5, 6})

\* C3: with a single producer, the handles handed downstream so far followed
\* by the handles still queued are exactly the accepted handles (less those a
\* shrinking Resize released) in the order they were enqueued, which is the
\* order of their creation: none duplicated, skipped or reordered.
Thm_C3 ==
  (Cardinality(env.producers) = 1 /\ Stable) =>
    LET s == delivered \o Queued
    IN /\ StrictlyIncreasing(s)
       /\ Range(s) = AcceptedSet \ ResizeReleased
\* On a ring of four slots the single producer's handles went round the
\* storage: five were delivered, the sixth is queued, none was released.
Wit_C3 ==
  /\ Cardinality(env.producers) = 1 /\ Stable /\ HotPathIdle
  /\ Active.slots = 4
  /\ delivered = <<1, 2, 3, 4, 5>>
  /\ Queued = <<6>>
  /\ freed = NoneFreed

\* The control thread is back from a set_size that Resize completed.
ResizeDone == ctl.pc = "ret" /\ ctl.op = "set_size" /\ ctl.ret = "ok"
\* The capacity of the ring that was active when the command was issued.
OldCapacity == ctl.pre.mem[ctl.pre.queue_].slots

\* C4: when a set_size to a capacity above the current one returns success,
\* the active ring is the new ring of that capacity and holds exactly the
\* handles queued before, in the same order; no handle was released or
\* handed downstream by the resize.
Thm_C4 ==
  (ResizeDone /\ ctl.slots > OldCapacity) =>
    /\ queue_ = ctl.new_queue
    /\ Active.state = "live"
    /\ Active.slots = ctl.slots
    /\ Queued = ctl.pre.contents
    /\ freed = ctl.pre.freed
    /\ delivered = ctl.pre.delivered
\* A ring of eight slots whose consumer had moved on was grown to sixteen
\* with four handles queued.
Wit_C4 ==
  /\ ResizeDone
  /\ OldCapacity = 8 /\ ctl.slots = 16
  /\ delivered = <<1, 2>>
  /\ Queued = <<3, 4, 5, 6>>

\* C5: when a set_size to a capacity below the current occupancy returns
\* success, the active ring holds exactly the oldest new_capacity handles in
\* order, and exactly the other occupancy - new_capacity handles, the newest
\* ones, were released, once each.
Thm_C5 ==
  (ResizeDone /\ ctl.slots < Len(ctl.pre.contents)) =>
    /\ queue_ = ctl.new_queue
    /\ Active.slots = ctl.slots
    /\ Queued = SubSeq(ctl.pre.contents, 1, ctl.slots)
    /\ freed = PlusReleased(ctl.pre.freed, "resize",
                            {ctl.pre.contents[i] : i \in (ctl.slots + 1)..Len(ctl.pre.contents)})
    /\ delivered = ctl.pre.delivered
\* Six handles were queued when the ring was shrunk to four slots.
Wit_C5 ==
  /\ ResizeDone
  /\ ctl.slots = 4
  /\ ctl.pre.contents = <<1, 2, 3, 4, 5, 6>>
  /\ Queued = <<1, 2, 3, 4>>
  /\ freed["resize"][5] = 1 /\ freed["resize"][6] = 1

\* An argument set_size must refuse.
InvalidSize(arg) == arg.type # "int" \/ ~ValidCapacity(arg.val)

\* C6: a set_size whose argument is not an integer, is outside 4..16384 or is
\* not a power of two never reaches Resize: it returns an error with no ring
\* allocated, and the active ring, its capacity, its queued handles and the
\* burst limit are as they were when the command was issued.
Thm_C6 ==
  (ctl.op = "set_size" /\ InvalidSize(ctl.arg)) =>
    /\ ctl.pc = "ret"
    /\ ctl.ret # "ok"
    /\ mem = ctl.pre.mem
    /\ queue_ = ctl.pre.queue_
    /\ Queued = ctl.pre.contents
    /\ burst_ = ctl.pre.burst_
\* set_size(3) was refused on a ring of eight slots holding handles.
Wit_C6 ==
  /\ ctl.pc = "ret" /\ ctl.op = "set_size" /\ ctl.arg = IntArg(3)
  /\ ctl.ret = "EINVAL"
  /\ Active.slots = 8
  /\ Len(Queued) >= 2

\* C7: when a set_size with a valid capacity returns an error (the allocation
\* or the initialisation of the new ring failed), the ring that was active is
\* still active and unchanged, with the same queued handles in the same order,
\* and no handle was released or handed downstream.
Thm_C7 ==
  (ctl.pc = "ret" /\ ctl.op = "set_size" /\ ~InvalidSize(ctl.arg) /\ ctl.ret # "ok") =>
    /\ queue_ = ctl.pre.queue_
    /\ mem = ctl.pre.mem
    /\ Active.state = "live"
    /\ Queued = ctl.pre.contents
    /\ freed = ctl.pre.freed
    /\ delivered = ctl.pre.delivered
\* llring_init refused the new ring while the active ring held handles.
Wit_C7 ==
  /\ ctl.pc = "ret" /\ ctl.op = "set_size" /\ ctl.arg = IntArg(4)
  /\ ctl.ret = "EINVAL"
  /\ Len(Queued) >= 5

\* C8: a RunTask that finds the ring empty dequeues nothing, does not call
\* run_next_module, leaves the ring and the released handles as they were,
\* and returns packets = 0 and bits = 0.
C8Dequeue ==
  (cons.pc = "idle" /\ cons'.pc = "stats" /\ Queued = <<>>) =>
    /\ cons'.cnt = 0
    /\ cons'.handed = 0
    /\ mem' = mem
    /\ delivered' = delivered
    /\ freed' = freed
C8Result ==
  (cons.pc = "stats" /\ cons.cnt = 0 /\ cons'.pc = "ret") =>
    /\ cons'.ret = [packets |-> 0, bits |-> 0]
    /\ cons'.handed = 0
    /\ mem' = mem
    /\ delivered' = delivered
Thm_C8 == [][C8Dequeue /\ C8Result]_vars
\* RunTask is about to return {0, 0} from a ring that traffic had emptied.
Wit_C8 ==
  /\ cons.pc = "ret" /\ cons.cnt = 0 /\ cons.handed = 0
  /\ cons.ret = [packets |-> 0, bits |-> 0]
  /\ Queued = <<>>
  /\ Len(delivered) >= 2

\* The payload bytes of the packets of a batch, as they were dequeued.
PayloadBytes(batch) == SumOver([h \in Handles |-> PktLen(h)], batch)

\* C9: a RunTask on a ring holding k handles with burst limit b dequeues the
\* oldest cnt = min(b, k) handles, hands them downstream in one call when
\* cnt > 0, and returns packets = cnt and bits = (payload bytes of the cnt
\* packets + 24 * cnt) * 8.
C9Dequeue ==
  (cons.pc = "idle" /\ cons'.pc = "stats") =>
    LET cnt == Min(burst_, Len(Queued))
    IN /\ cons'.cnt = cnt
       /\ cons'.batch = SubSeq(Queued, 1, cnt)
       /\ RingContents(mem'[queue_]) = SubSeq(Queued, cnt + 1, Len(Queued))
       /\ cons'.handed = IF cnt > 0 THEN 1 ELSE 0
       /\ delivered' = delivered \o SubSeq(Queued, 1, cnt)
C9Result ==
  (cons.pc = "stats" /\ cons'.pc = "ret") =>
    /\ cons'.ret.packets = cons.cnt
    /\ cons'.ret.bits = (PayloadBytes(cons.batch) + 24 * cons.cnt) * 8
    /\ cons'.handed = cons.handed
    /\ delivered' = delivered
Cex_C9 == [][C9Dequeue /\ C9Result]_vars

\* The cursor positions producer p has reserved in its ring.
Reserved(p) ==
  IF prod[p].pc \in {"write", "publish"}
  THEN {prod[p].head + i : i \in 0..(prod[p].n - 1)}
  ELSE {}

\* C10: with several producers inside ProcessBatch at once and one consumer,
\* the ranges of slots they reserved are disjoint and lie between the
\* consumer cursor and the producer cursor, which are never more than the
\* capacity apart; the slots a producer wrote still hold its handles until it
\* makes them visible; the handles delivered or queued are exactly the
\* accepted ones, once each; and the handles of one call become visible as
\* one block in batch order and leave the ring in that order.
C10State ==
  Stable =>
    /\ \A p, o \in Producers : p # o /\ prod[p].q = prod[o].q => Reserved(p) \cap Reserved(o) = {}
    /\ \A p \in Producers :
         prod[p].pc \in {"write", "publish"} =>
           /\ prod[p].n \in 1..Len(prod[p].batch)
           /\ \A c \in Reserved(p) :
                /\ mem[prod[p].q].prod_tail <= c
                /\ c < mem[prod[p].q].prod_head
                /\ c < mem[prod[p].q].cons_tail + mem[prod[p].q].slots
    /\ \A p \in Producers :
         prod[p].pc = "publish" =>
           \A i \in 1..prod[p].n :
             SlotAt(mem[prod[p].q], prod[p].head + i - 1) = prod[p].batch[i]
    /\ Active.prod_head - Active.cons_tail <= Active.slots
    /\ NoDuplicates(delivered \o Queued)
    /\ Range(delivered \o Queued) = AcceptedSet \ ResizeReleased
C10Step ==
  /\ \A p \in Producers :
       (prod[p].pc = "publish" /\ prod'[p].pc = "idle") =>
         RingContents(mem'[prod[p].q])
           = RingContents(mem[prod[p].q]) \o SubSeq(prod[p].batch, 1, prod[p].n)
  /\ (cons.pc = "idle" /\ cons'.pc = "stats") =>
       delivered' \o RingContents(mem'[queue_]) = delivered \o Queued
Thm_C10 == []C10State /\ [][C10Step]_vars
\* Both producers are inside ProcessBatch on a ring of four slots: one has
\* written the three slots it reserved, the other took the last free slot for
\* the first handle of its batch of two.
Wit_C10 ==
  /\ Cardinality(env.producers) = 2
  /\ queue_ # NULL
  /\ Active.slots = 4
  /\ \E p, o \in Producers :
       /\ p # o
       /\ prod[p].pc = "publish" /\ prod[p].head = 0 /\ prod[p].n = 3
       /\ prod[o].pc = "write" /\ prod[o].head = 3 /\ prod[o].n = 1
       /\ Len(prod[o].batch) = 2

\* How often handle h occurs in sequence s.
Occurrences(s, h) == Cardinality({i \in DOMAIN s : s[i] = h})
RECURSIVE QueuedIn(_, _)
\* How often handle h is queued in the live rings of Q.
QueuedIn(Q, h) ==
  IF Q = {} THEN 0
  ELSE LET q == CHOOSE x \in Q : TRUE
       IN (IF mem[q].state = "live" THEN Occurrences(RingContents(mem[q]), h) ELSE 0)
          + QueuedIn(Q \ {q}, h)
\* How often handle h was released, over all release sites.
ReleasedCount(h) == freed["overflow"][h] + freed["resize"][h] + freed["deinit"][h]
\* The handles passed to ProcessBatch by calls that have returned.
Submitted == {h \in 1..(next_handle - 1) : h \notin InFlight}

\* C11: in every state reached by ProcessBatch, RunTask, quiescent set_size
\* and Deinit, every handle passed to a ProcessBatch call that has returned is
\* in exactly one place, once: queued in a ring, handed downstream, or
\* released; outside a Resize the ring it is queued in is the active one; and
\* no handle that was never submitted is anywhere.
Thm_C11 ==
  /\ \A h \in Submitted :
       QueuedIn(RingIds, h) + Occurrences(delivered, h) + ReleasedCount(h) = 1
  /\ \A h \in Handles \ Submitted :
       QueuedIn(RingIds, h) + Occurrences(delivered, h) + ReleasedCount(h) = 0
  /\ Stable => \A h \in Handles : QueuedIn(RingIds \ {queue_}, h) = 0
\* A torn-down module whose six handles went every way: delivered, released
\* as overflow, released by a shrinking Resize, released by Deinit.
Wit_C11 ==
  /\ lifecycle = "torn_down"
  /\ next_handle = 7
  /\ Len(delivered) >= 1
  /\ \E h \in Handles : freed["overflow"][h] = 1
  /\ \E h \in Handles : freed["resize"][h] = 1
  /\ \E h \in Handles : freed["deinit"][h] = 1

\* C12: Deinit of a module that has a ring releases every handle queued in
\* the active ring exactly once and nothing else, then gives the ring's
\* storage back; afterwards no ring holds a handle, and the handles handed
\* downstream were not released by it.
C12Step ==
  (lifecycle # "torn_down" /\ lifecycle' = "torn_down" /\ queue_ # NULL) =>
    /\ freed' = PlusReleased(freed, "deinit", Range(Queued))
    /\ mem'[queue_].state = "freed"
    /\ \A q \in RingIds : mem'[q].state # "live"
    /\ delivered' = delivered
    /\ \A i \in DOMAIN delivered : freed'["deinit"][delivered[i]] = 0
    /\ fault' = "none"
Thm_C12 == [][C12Step]_vars
\* Deinit found handles 3 and 4 queued after 1 and 2 had been handed
\* downstream.
Wit_C12 ==
  /\ lifecycle = "torn_down"
  /\ queue_ # NULL
  /\ mem[queue_].state = "freed"
  /\ delivered = <<1, 2>>
  /\ freed = PlusReleased(NoneFreed, "deinit", {3, 4})

\* Init or set_size is returning the error of a refused burst or size.
ConfigError ==
  /\ ctl.pc = "ret"
  /\ ctl.ret = "EINVAL"
  /\ \/ ctl.op = "init" /\ ctl.arg # NoArg
     \/ ctl.op = "set_size" /\ InvalidSize(ctl.arg)

\* C13: an Init or a command that fails with a configuration error leaves the
\* burst limit, the active ring, the prefetch flag and the task registration
\* as they were before the call.
Cex_C13 ==
  ConfigError =>
    /\ burst_ = ctl.pre.burst_
    /\ queue_ = ctl.pre.queue_
    /\ prefetch_ = ctl.pre.prefetch_
    /\ task_registered = ctl.pre.task_registered

\* A burst set_burst must accept.
ValidBurst(arg) == arg.type = "int" /\ arg.val \in 1..MAX_PKT_BURST

\* C14: once Init has succeeded the burst limit is always in 1..MAX_PKT_BURST:
\* a successful Init leaves it at the configured burst, MAX_PKT_BURST when
\* none is configured; set_burst(n) with n in 1..MAX_PKT_BURST returns success
\* with the limit equal to n; set_burst with 0, a larger n or a non-integer
\* returns an error with the limit as it was before the call.
Thm_C14 ==
  /\ lifecycle = "running" => burst_ \in 1..MAX_PKT_BURST
  /\ (ctl.pc = "ret" /\ ctl.op = "init" /\ ctl.ret = "ok") =>
       burst_ = IF ctl.cfg.burst = NoArg THEN MAX_PKT_BURST ELSE ctl.cfg.burst.val
  /\ (ctl.pc = "ret" /\ ctl.op = "set_burst") =>
       IF ValidBurst(ctl.arg)
       THEN ctl.ret = "ok" /\ burst_ = ctl.arg.val
       ELSE ctl.ret # "ok" /\ burst_ = ctl.pre.burst_
\* set_burst(0) is refused after an earlier set_burst(2) had replaced the
\* default.
Wit_C14 ==
  /\ ctl.pc = "ret" /\ ctl.op = "set_burst"
  /\ ctl.arg = IntArg(0) /\ ctl.ret = "EINVAL"
  /\ ctl.pre.burst_ = 2 /\ burst_ = 2
  /\ ctl.cfg = NoCfg /\ prefetch_ = FALSE

\* C15: under fair scheduling of the threads every ProcessBatch call returns
\* and every RunTask returns, however the steps of the other producer, the
\* consumer and the control thread are interleaved with it; a call accepts
\* between 0 and N handles, a RunTask dequeues at most burst handles, and
\* neither makes an invalid memory access or stops the module.
C15Bounded ==
  /\ \A p \in Producers :
       prod[p].pc # "idle" => prod[p].n \in 0..Len(prod[p].batch)
  /\ cons.pc # "idle" => cons.cnt \in 0..cons.burst /\ cons.cnt = Len(cons.batch)
  /\ lifecycle = "running" => fault = "none"
\* A step of ProcessBatch or RunTask leaves the module running.
C15NoHalt ==
  (prod' # prod \/ cons' # cons) =>
    lifecycle = "running" /\ lifecycle' = "running" /\ fault' = "none"
Drained ==
  \A h \in 1..(next_handle - 1) : Occurrences(delivered, h) + ReleasedCount(h) = 1

\* C19: with RunTask invoked again and again and the threads scheduled
\* fairly, once the producers stop calling ProcessBatch (they stop at the
\* latest when the handles are used up) the ring becomes and stays empty,
\* every accepted handle having been handed downstream or released; and each
\* RunTask delivers the handles at distance less than burst from the consumer
\* cursor and brings every other queued handle burst positions closer, so a
\* handle at distance d is delivered within ceil((d + 1) / burst) invocations.
C19Step ==
  (cons.pc = "idle" /\ cons'.pc = "stats") =>
    \A i \in DOMAIN Queued :
      IF i <= burst_
      THEN Occurrences(delivered', Queued[i]) = 1
      ELSE /\ i - burst_ \in DOMAIN RingContents(mem'[queue_])
           /\ RingContents(mem'[queue_])[i - burst_] = Queued[i]
Thm_C19 == <>[]Drained /\ [][C19Step]_vars
\* All four handles were queued at once and two invocations of RunTask with
\* burst 2 have delivered them; the ring is empty.
Wit_C19 ==
  /\ lifecycle = "running" /\ HotPathIdle
  /\ burst_ = 2
  /\ next_handle > 4
  /\ delivered = <<1, 2, 3, 4>>
  /\ Queued = <<>>
  /\ Active.cons_tail = 4
  /\ Drained

\* C16: when RunTask is at the pass that reads the lengths of the dequeued
\* packets (and touches their payload under prefetch), the batch has not been
\* handed downstream yet; after the hand-off no packet of the batch is read.
Cex_C16 == (cons.pc = "stats" /\ cons.cnt > 0) => cons.handed = 0

\* C17: the old ring is empty when Resize releases its storage, and in no
\* state of the running module, the states inside Resize included, does
\* queue_ designate a ring whose storage has been released.
Cex_C17 ==
  /\ ctl.pc = "free_old" => RingContents(mem[ctl.old_queue]) = <<>>
  /\ (lifecycle = "running" /\ queue_ # NULL) => mem[queue_].state = "live"

\* C20: whenever Deinit, GetDesc, ProcessBatch or RunTask may execute, queue_
\* designates an allocated ring, and no Deinit dequeues from or releases a
\* ring that does not exist (Deinit after an Init that failed included).
Cex_C20 ==
  /\ (MayDeinit \/ MayDescribe \/ MayServe) =>
       (queue_ # NULL /\ mem[queue_].state = "live")
  /\ fault # "null_deref"

\* A handle of a ProcessBatch call that has returned which is in no live
\* ring, was not handed downstream and was not released.
LostHandles ==
  {h \in Submitted :
     QueuedIn(RingIds, h) + Occurrences(delivered, h) + ReleasedCount(h) = 0}

\* C18: when set_size is only issued with no ProcessBatch and no RunTask in
\* flight, no handle accepted into the old ring of a Resize ends up neither
\* migrated, delivered nor released, and no ring is written to or read from
\* after its storage was released; both happen when a ProcessBatch or a
\* RunTask runs while Resize does.
Thm_C18 == env.sync => (LostHandles = {} /\ fault # "use_after_free")
\* Without the pause, and before any access to released storage: a
\* ProcessBatch made handle 1 visible in the old ring after the migration
\* loop had found that ring empty, and Resize released the ring with it.
Wit_C18 ==
  /\ ~env.sync
  /\ fault = "none"
  /\ ctl.op = "set_size" /\ ctl.pc = "ret" /\ ctl.ret = "ok"
  /\ ctl.pre.contents = <<>>
  /\ 1 \in LostHandles
  /\ RingContents(mem[queue_]) = <<>>

====
